---- MODULE Spec2Model ----
(***************************************************************************)
(* Model of the arkdep Calamares job module                                *)
(* (src/additional-modules/arkdep/main.py): PartitionManager, FileManager  *)
(* and the Arkdep install pipeline with its remount sequence.              *)
(*                                                                         *)
(* Three specifications share the variables:                               *)
(*   SpecPM   the PartitionManager queries over bounded partition lists;   *)
(*   Spec     one run of run()/Arkdep.install, step by step;               *)
(*   SpecCmd  one call of FileManager.run_cmd_with_logging with its two    *)
(*            threads and the child process.                               *)
(***************************************************************************)
EXTENDS Integers, Sequences, FiniteSets, TLC

VARIABLES
    partitions,   \* PartitionManager.partitions: the list read from globalstorage
    query,        \* SpecPM: the last PartitionManager call and what it returned
    step,         \* install: index into steps of the step that runs next
    status,       \* install: "running", "returned" or "raised"
    retval,       \* install: the value returned to the caller of run()
    started,      \* install: descriptions of the steps started, in order
    returned,     \* install: what each started step gave back
    files,        \* the files the job writes under rootmount, path -> content
    log,          \* the messages given to libcalamares.utils (error, debug)
    rm,           \* remount_system: its locals (devices, deployment_dirs, commands)
    issued,       \* remount_system: the commands handed to run_cmd, in order, and how each ended
    mounts,       \* the mount table, mountpoint -> what is mounted there
    proc,         \* run_cmd_with_logging: the child process
    mainPc,       \* run_cmd_with_logging: position of the calling thread
    logPc,        \* run_cmd_with_logging: position of log_progress
    outPc,        \* run_cmd_with_logging: position of read_output
    counter,      \* log_progress: its counter
    pipe,         \* the child's stdout pipe: lines not yet read
    last_output_line, \* the shared nonlocal of run_cmd_with_logging
    cmdResult,    \* what run_cmd_with_logging returned
    now,          \* the time, in seconds, since run_cmd_with_logging was called
    wake          \* log_progress: the time its time.sleep is over

pmVars  == <<query>>
plVars  == <<step, status, retval, started, returned, files, rm, issued, mounts>>
cmdVars == <<proc, mainPc, logPc, outPc, counter, pipe, last_output_line, cmdResult,
             now, wake>>
vars    == <<partitions, query, step, status, retval, started, returned, files,
             log, rm, issued, mounts, proc, mainPc, logPc, outPc, counter, pipe,
             last_output_line, cmdResult, now, wake>>

(***************************************************************************)
(* Bounds of the model.                                                    *)
(***************************************************************************)
MaxParts == 3
\* the lines the child process writes, and the seconds that pass, which are
\* also the rounds of log_progress
MaxLines == 2
MaxTicks == 2

(***************************************************************************)
(* Python values.  A dict is a function over its possible keys; a key the  *)
(* dict does not hold maps to Absent.  None is Python's None.              *)
(***************************************************************************)
Absent == "<absent>"
None   == "<None>"
Fault  == "<exception>"

\* dict.get(key) and dict.get(key, default)
Get(d, key)           == IF d[key] = Absent THEN None ELSE d[key]
GetD(d, key, default) == IF d[key] = Absent THEN default ELSE d[key]

Keys == {"mountPoint", "device", "fs", "uuid", "luksMapperName", "luksUuid"}

\* the empty dict {}
EmptyDict == [k \in Keys |-> Absent]

\* Python truthiness of a string-or-None value, and of a dict
Truthy(v)     == v \notin {None, Absent, ""}
TruthyDict(d) == d # EmptyDict

Part(mp, dev, fs, uuid, mapper, luksUuid) ==
    [mountPoint |-> mp, device |-> dev, fs |-> fs, uuid |-> uuid,
     luksMapperName |-> mapper, luksUuid |-> luksUuid]

\* The partition records the lists are built from: plain and encrypted root,
\* boot, plain and encrypted home, and a root record that has no device.
PartitionPool ==
    { Part("/",     "/dev/sda2", "btrfs", "AAAA", Absent,      Absent),
      Part("/boot", "/dev/sda1", Absent,  "BBBB", Absent,      Absent),
      Part("/",     "/dev/sda3", "btrfs", "CCCC", "luks-root", "LLLL"),
      Part("/home", "/dev/sda4", "ext4",  "DDDD", Absent,      Absent),
      Part("/home", "/dev/sda5", Absent,  "EEEE", "luks-home", "HHHH"),
      Part("/",     Absent,      "btrfs", Absent, "",          Absent) }

SeqsUpTo(S, n) == UNION { [1..k -> S] : k \in 0..n }

\* The partition lists: up to MaxParts records, no partition listed twice
PartitionLists ==
    { l \in SeqsUpTo(PartitionPool, MaxParts) :
        \A i, j \in 1..Len(l) : l[i] = l[j] => i = j }

MountPoints == {"/", "/boot", "/home", "/var"}

MapperPath(name) == "/dev/mapper/" \o name

\* What the outside world answers to one get_uuid call: whether the mapper
\* path exists, and how `blkid -s UUID -o value <mapper>` ends: the UUID it
\* prints, a non-zero exit (CalledProcessError), or blkid cannot be launched
\* (OSError, which get_uuid does not catch).  blkid is not run when the path
\* does not exist, so one answer stands for that case.
ProbedUuids  == {"FFFF"}
BlkidResults == ProbedUuids \cup {"CalledProcessError", "OSError"}
Probes       == {[exists |-> FALSE, blkid |-> "CalledProcessError"]}
                \cup [exists : {TRUE}, blkid : BlkidResults]

(***************************************************************************)
(* PartitionManager                                                        *)
(***************************************************************************)
RECURSIVE FirstMatch(_, _, _)
FirstMatch(parts, mountpoint, i) ==
    IF i > Len(parts) THEN EmptyDict
    ELSE IF Get(parts[i], "mountPoint") = mountpoint THEN parts[i]
    ELSE FirstMatch(parts, mountpoint, i + 1)

\* the last matching record instead of the first
RECURSIVE LastMatch(_, _, _)
LastMatch(parts, mountpoint, i) ==
    IF i < 1 THEN EmptyDict
    ELSE IF Get(parts[i], "mountPoint") = mountpoint THEN parts[i]
    ELSE LastMatch(parts, mountpoint, i - 1)

get_partition_last(parts, mountpoint) == LastMatch(parts, mountpoint, Len(parts))

get_partition(parts, mountpoint) == FirstMatch(parts, mountpoint, 1)

get_uuid(parts, mountpoint, filesystem, probe) ==
    LET partition == get_partition(parts, mountpoint)
        plain     == GetD(partition, "uuid", "")
    IN  IF ~TruthyDict(partition) THEN ""
        ELSE IF Truthy(Get(partition, "luksMapperName"))
        THEN IF filesystem
             THEN IF probe.exists
                  THEN CASE probe.blkid \in ProbedUuids -> probe.blkid
                         [] probe.blkid = "CalledProcessError" -> plain
                         [] OTHER -> Fault
                  ELSE plain
             ELSE GetD(partition, "luksUuid", "")
        ELSE plain

\* the raw backing device even when the partition has a mapper name
get_device_raw(parts, mountpoint) ==
    LET partition == get_partition(parts, mountpoint)
    IN  IF ~TruthyDict(partition) THEN None
        ELSE Get(partition, "device")

get_device(parts, mountpoint) ==
    LET partition == get_partition(parts, mountpoint)
    IN  IF ~TruthyDict(partition) THEN None
        ELSE IF Truthy(Get(partition, "luksMapperName"))
             THEN MapperPath(partition["luksMapperName"])
             ELSE Get(partition, "device")

is_luks(parts, mountpoint) ==
    Truthy(Get(get_partition(parts, mountpoint), "luksMapperName"))

get_filesystem(parts, mountpoint) ==
    GetD(get_partition(parts, mountpoint), "fs", "btrfs")

(***************************************************************************)
(* SpecPM: the PartitionManager queries, each applied to a partition list  *)
(* and a mountpoint drawn from the bounded sets above.                     *)
(***************************************************************************)
NoProbe == [exists |-> FALSE, blkid |-> "CalledProcessError"]

NoQuery == [op |-> "none", mountpoint |-> "", filesystem |-> FALSE,
            probe |-> NoProbe, result |-> ""]

Asked(op, mountpoint, filesystem, probe, result) ==
    [op |-> op, mountpoint |-> mountpoint, filesystem |-> filesystem,
     probe |-> probe, result |-> result]

QueryPartition ==
    \E mp \in MountPoints :
        query' = Asked("get_partition", mp, FALSE, NoProbe,
                       get_partition(partitions, mp))

QueryUuid ==
    \E mp \in MountPoints, fs \in BOOLEAN, probe \in Probes :
        query' = Asked("get_uuid", mp, fs, probe,
                       get_uuid(partitions, mp, fs, probe))

QueryDevice ==
    \E mp \in MountPoints :
        query' = Asked("get_device", mp, FALSE, NoProbe,
                       get_device(partitions, mp))

QueryIsLuks ==
    \E mp \in MountPoints :
        query' = Asked("is_luks", mp, FALSE, NoProbe, is_luks(partitions, mp))

QueryFilesystem ==
    \E mp \in MountPoints :
        query' = Asked("get_filesystem", mp, FALSE, NoProbe,
                       get_filesystem(partitions, mp))

\* What a step, write or run_cmd gives back: Python's True and False; Fault
\* stands for an exception leaving the call.
True  == "True"
False == "False"

\* TEMPLATES[key].format(**args): the template and the values put into its
\* placeholders.  A template without placeholders has no arguments.
Format(key, args) == [template |-> key, args |-> args]

\* A path that holds no file, and a file truncated to nothing
NoFile    == Format("<no file>", <<>>)
EmptyFile == Format("<empty>", <<>>)

(***************************************************************************)
(* FileManager.write and FileManager.run_cmd                               *)
(***************************************************************************)
Error(text) == [level |-> "error", text |-> text]
Debug(text) == [level |-> "debug", text |-> text]

\* How one write(path, content) ends: done; os.makedirs or open failed (the
\* file is untouched); f.write failed after open(path, "w") truncated it.
WriteOutcomes == {"ok", "open_failed", "write_failed"}

\* How one subprocess.check_call ends: exit status 0; a non-zero exit status
\* (CalledProcessError); the executable cannot be launched (OSError, which
\* run_cmd does not catch).
CmdOutcomes == {"ok", "CalledProcessError", "OSError"}

\* write(path, content): the files afterwards, the messages logged, the result
write_files(fs, path, content, outcome) ==
    CASE outcome = "ok"           -> [fs EXCEPT ![path] = content]
      [] outcome = "write_failed" -> [fs EXCEPT ![path] = EmptyFile]
      [] OTHER                    -> fs

write_log(path, outcome) ==
    IF outcome = "ok" THEN <<>>
    ELSE <<Error("Failed to write " \o path \o ": <e>")>>

write_result(outcome) == IF outcome = "ok" THEN True ELSE False

\* repr of a list of strings: ['umount', '/mnt/boot']
RECURSIVE ReprFrom(_, _)
ReprFrom(cmd, i) ==
    IF i > Len(cmd) THEN ""
    ELSE (IF i > 1 THEN ", " ELSE "") \o "'" \o cmd[i] \o "'" \o ReprFrom(cmd, i + 1)

Repr(cmd) == "[" \o ReprFrom(cmd, 1) \o "]"

\* str(CalledProcessError): the command and its exit status (a non-zero
\* status is 1 here)
CalledProcessErrorText(cmd) ==
    "Command '" \o Repr(cmd) \o "' returned non-zero exit status 1."

\* run_cmd(cmd): the messages logged and the result (TRUE, FALSE, or Fault
\* when the exception is not a CalledProcessError)
run_cmd_log(cmd, outcome) ==
    IF outcome = "CalledProcessError"
    THEN <<Error("Command failed: " \o CalledProcessErrorText(cmd))>>
    ELSE <<>>

run_cmd(outcome) ==
    CASE outcome = "ok"                 -> True
      [] outcome = "CalledProcessError" -> False
      [] OTHER                          -> Fault

(***************************************************************************)
(* Paths and templates                                                     *)
(***************************************************************************)
rootmount == "/tmp/calamares-root"

Join(a, b) == a \o "/" \o b

boot_dir      == Join(rootmount, "boot")
home_dir      == Join(rootmount, "home")
loader_conf   == Join(rootmount, "boot/loader/loader.conf")
efi_systemd   == Join(rootmount, "boot/EFI/systemd/systemd-bootx64.efi")
efi_boot      == Join(rootmount, "boot/EFI/BOOT/BOOTx64.EFI")
config_path   == Join(rootmount, "arkdep/config")
fstab_path    == Join(rootmount, "arkdep/overlay/etc/fstab")
group_path    == Join(rootmount, "arkdep/overlay/etc/group")
template_path == Join(rootmount, "arkdep/templates/systemd-boot")

Paths == {loader_conf, efi_systemd, efi_boot, config_path, fstab_path,
          group_path, template_path}

BtrfsHomeOptions  == "rw,relatime,ssd,discard=async,space_cache=v2,compress=zstd"
OtherHomeOptions  == "rw,relatime,errors=remount-ro"
SharedHomeOptions ==
    "rw,relatime,ssd,discard=async,space_cache=v2,subvol=arkdep/shared/home,compress=zstd"

(***************************************************************************)
(* Arkdep: the steps                                                       *)
(***************************************************************************)
\* What a step leaves behind: the files, the messages it logged, its result
Outcome(fs, msgs, result) == [files |-> fs, log |-> msgs, result |-> result]

\* setup_systemd_boot.  makedirs: whether the three os.makedirs calls went
\* through (they are outside any try); copied: how many of the two
\* shutil.copy calls went through; w: how the write of loader.conf ended.
setup_systemd_boot(fs, makedirs, copied, w) ==
    IF ~makedirs THEN Outcome(fs, <<>>, Fault)
    ELSE LET efi == Format("systemd-bootx64.efi", <<>>)
             fs1 == IF copied >= 1 THEN [fs EXCEPT ![efi_systemd] = efi] ELSE fs
             fs2 == IF copied >= 2 THEN [fs1 EXCEPT ![efi_boot] = efi] ELSE fs1
         IN  IF copied < 2
             THEN Outcome(fs2, <<Error("Error copying systemd-boot: <e>")>>, False)
             ELSE Outcome(write_files(fs2, loader_conf, Format("loader_conf", <<>>), w),
                          write_log(loader_conf, w), write_result(w))

\* libcalamares.job.configuration: the two overrides, None when not set
JobConfigs == { [repoUrl |-> None,            repoImage |-> None],
                [repoUrl |-> "https://repo",  repoImage |-> None],
                [repoUrl |-> "https://repo",  repoImage |-> "image"] }

\* re.sub on the config text: the text is the values of its two settings
PatchConfig(content, config) ==
    LET a  == content.args
        a1 == IF Truthy(config.repoUrl)
              THEN [a EXCEPT !.repo_url = config.repoUrl] ELSE a
        a2 == IF Truthy(config.repoImage)
              THEN [a1 EXCEPT !.repo_default_image = config.repoImage] ELSE a1
    IN  Format(content.template, a2)

\* update_arkdep_config.  io: how the read and the write of the file ended
ConfigIO == {"ok", "read_failed", "write_failed"}

update_arkdep_config(fs, config, io) ==
    IF ~Truthy(config.repoUrl) /\ ~Truthy(config.repoImage)
    THEN Outcome(fs, <<>>, True)
    ELSE IF fs[config_path] = NoFile THEN Outcome(fs, <<>>, True)
    ELSE CASE io = "ok" ->
                Outcome([fs EXCEPT ![config_path] = PatchConfig(@, config)],
                        <<>>, True)
           [] io = "read_failed" ->
                Outcome(fs, <<Error("Failed to update arkdep config: <e>")>>, False)
           [] OTHER ->
                Outcome([fs EXCEPT ![config_path] = EmptyFile],
                        <<Error("Failed to update arkdep config: <e>")>>, False)

\* the branch taken on what the probe of the home mapper found
home_fstab_probing(parts, root_fs_uuid, homeProbe) ==
    LET fs_type == get_filesystem(parts, "/home")
    IN  IF TruthyDict(get_partition(parts, "/home")) /\ homeProbe.exists
        THEN Format("home_fstab",
                    [home_fs_uuid  |-> get_uuid(parts, "/home", TRUE, homeProbe),
                     fs_type       |-> fs_type,
                     mount_options |-> IF fs_type = "btrfs" THEN BtrfsHomeOptions
                                       ELSE OtherHomeOptions])
        ELSE Format("home_fstab",
                    [home_fs_uuid  |-> root_fs_uuid,
                     fs_type       |-> "btrfs",
                     mount_options |-> SharedHomeOptions])

\* the /home line configure_fstab renders
home_fstab(parts, root_fs_uuid, homeProbe) ==
    LET home_partition == get_partition(parts, "/home")
        fs_type        == get_filesystem(parts, "/home")
    IN  IF TruthyDict(home_partition)
        THEN Format("home_fstab",
                    [home_fs_uuid  |-> get_uuid(parts, "/home", TRUE, homeProbe),
                     fs_type       |-> fs_type,
                     mount_options |-> IF fs_type = "btrfs" THEN BtrfsHomeOptions
                                       ELSE OtherHomeOptions])
        ELSE Format("home_fstab",
                    [home_fs_uuid  |-> root_fs_uuid,
                     fs_type       |-> "btrfs",
                     mount_options |-> SharedHomeOptions])

fstab_content(parts, rootProbe, homeProbe) ==
    LET root_fs_uuid == get_uuid(parts, "/", TRUE, rootProbe)
        esp_uuid     == get_uuid(parts, "/boot", FALSE, rootProbe)
        home         == home_fstab(parts, root_fs_uuid, homeProbe)
    IN  Format("fstab", [root_fs_uuid |-> root_fs_uuid,
                         esp_uuid     |-> esp_uuid,
                         home_fstab   |-> home])

\* whether one of the get_uuid calls of configure_fstab raised
fstab_raises(parts, rootProbe, homeProbe) ==
    LET fstab == fstab_content(parts, rootProbe, homeProbe)
    IN  \/ fstab.args.root_fs_uuid = Fault
        \/ fstab.args.home_fstab.args.home_fs_uuid = Fault

configure_fstab(fs, parts, rootProbe, homeProbe, w) ==
    IF fstab_raises(parts, rootProbe, homeProbe) THEN Outcome(fs, <<>>, Fault)
    ELSE Outcome(write_files(fs, fstab_path,
                             fstab_content(parts, rootProbe, homeProbe), w),
                 write_log(fstab_path, w), write_result(w))

write_group_file(fs, w) ==
    Outcome(write_files(fs, group_path, Format("group_file", <<>>), w),
            write_log(group_path, w), write_result(w))

\* the filesystem UUID asked for instead of the container UUID
boot_root_uuid_filesystem(parts, probe) == get_uuid(parts, "/", TRUE, probe)

\* the text configure_boot_template renders.  probe is what the world would
\* answer to a probe of a mapper device.
boot_root_uuid(parts, probe) == get_uuid(parts, "/", FALSE, probe)

boot_home_option(parts, probe) ==
    LET home_luks_uuid == get_uuid(parts, "/home", FALSE, probe)
    IN  IF is_luks(parts, "/home") /\ Truthy(home_luks_uuid)
        THEN "rd.luks.name=" \o home_luks_uuid \o "=manjaro_home"
        ELSE ""

template_key(parts) ==
    IF is_luks(parts, "/") THEN "luks_systemd_boot" ELSE "systemd_boot"

boot_template_content(parts, probe) ==
    Format(template_key(parts),
           [root_uuid   |-> boot_root_uuid(parts, probe),
            home_option |-> boot_home_option(parts, probe)])

configure_boot_template(fs, parts, probe, w) ==
    Outcome(write_files(fs, template_path, boot_template_content(parts, probe), w),
            write_log(template_path, w), write_result(w))

\* run_cmd_with_logging: what it returns and what it logs at the end.
\* popen: whether subprocess.Popen started the child ("ok") or raised;
\* returncode: the child's exit status; last: last_output_line at that time.
ExitCodes  == {0, 1}
PopenKinds == {"ok", "OSError"}
Lines      == {"line-a", "line-b"}

\* success whatever the exit status
run_cmd_with_logging_result_always(popen, returncode) == True

run_cmd_with_logging_result(popen, returncode) ==
    IF popen # "ok" THEN False
    ELSE IF returncode # 0 THEN False
    ELSE True

run_cmd_with_logging_log(popen, returncode, last) ==
    IF popen # "ok" THEN <<Error("Command failed: <e>")>>
    ELSE IF returncode # 0
    THEN <<Error("Command failed with code " \o ToString(returncode)
                 \o ". Last output: " \o last)>>
    ELSE <<Debug("Command completed successfully: arkdep deploy")>>

(***************************************************************************)
(* Arkdep.remount_system                                                   *)
(***************************************************************************)
NotMounted == [device |-> None, options |-> ""]
\* what the installer had mounted before the job ran
Working(what) == [device |-> "<installer " \o what \o ">", options |-> ""]

\* os.path.ismount
ismount(mnt, dir) == mnt[dir] # NotMounted

devices(parts) == [root |-> get_device(parts, "/"),
                   boot |-> get_device(parts, "/boot"),
                   home |-> get_device(parts, "/home")]

\* os.listdir narrowed to the directories: the names in listing order; Fault
\* when the deployments directory does not exist
DeploymentListings == {<<>>, <<"a">>, <<"a", "b">>, <<"b", "a">>}

\* the subvolume of the last directory of the listing
deployment_subvol_last(deployment_dirs) ==
    "/arkdep/deployments/" \o deployment_dirs[Len(deployment_dirs)] \o "/rootfs"

deployment_subvol(deployment_dirs) ==
    "/arkdep/deployments/" \o deployment_dirs[1] \o "/rootfs"

\* the list with the umount of /home in it whether /home is mounted or not
commands_list_umount_home_always(devs, deployment_dirs, mnt) ==
    << <<"umount", boot_dir>>,
       <<"umount", home_dir>>,
       <<"umount", rootmount>>,
       <<"mount", "-o", "subvol=" \o deployment_subvol(deployment_dirs),
         devs.root, rootmount>>,
       IF Truthy(devs.home) THEN <<"mount", devs.home, home_dir>>
       ELSE <<"mount", "-o", "subvol=/arkdep/shared/home", devs.root, home_dir>>,
       <<"mount", devs.boot, boot_dir>> >>

\* the list `commands`, a skipped entry (None) being <<>>
commands_list(devs, deployment_dirs, mnt) ==
    << <<"umount", boot_dir>>,
       IF ismount(mnt, home_dir) THEN <<"umount", home_dir>> ELSE <<>>,
       <<"umount", rootmount>>,
       <<"mount", "-o", "subvol=" \o deployment_subvol(deployment_dirs),
         devs.root, rootmount>>,
       IF Truthy(devs.home) THEN <<"mount", devs.home, home_dir>>
       ELSE <<"mount", "-o", "subvol=/arkdep/shared/home", devs.root, home_dir>>,
       <<"mount", devs.boot, boot_dir>> >>

NotNone(cmd) == cmd # <<>>

\* filter(None, commands)
commands(devs, deployment_dirs, mnt) ==
    SelectSeq(commands_list(devs, deployment_dirs, mnt), NotNone)

\* what a umount or mount command that exits 0 does to the mount table
run_mount(mnt, cmd) ==
    IF cmd[1] = "umount" THEN [mnt EXCEPT ![cmd[2]] = NotMounted]
    ELSE IF cmd[2] = "-o"
         THEN [mnt EXCEPT ![cmd[5]] = [device |-> cmd[4], options |-> cmd[3]]]
         ELSE [mnt EXCEPT ![cmd[3]] = [device |-> cmd[2], options |-> ""]]

\* a failed command followed by mounting /boot again
after_command_unwinding(mnt, cmd, outcome) ==
    IF outcome = "ok" THEN run_mount(mnt, cmd)
    ELSE [mnt EXCEPT ![boot_dir] = Working("boot")]

\* the mount table after run_cmd(cmd): a command that did not exit with
\* status 0 leaves it as it was, and nothing else touches it
after_command(mnt, cmd, outcome) ==
    IF outcome = "ok" THEN run_mount(mnt, cmd) ELSE mnt

\* only the root device is tested
devices_missing_root_only(devs) == ~Truthy(devs.root)

\* `if not devices['root'] or not devices['boot']`
devices_missing(devs) == ~Truthy(devs.root) \/ ~Truthy(devs.boot)

\* `if not deployment_dirs`
no_deployment(deployment_dirs) == Len(deployment_dirs) = 0

\* the locals of remount_system; listed: os.listdir has returned;
\* home_mounted: what os.path.ismount(home_dir) answered
NoRemount == [pc |-> "idle", devices |-> devices(<<>>), listed |-> FALSE,
              deployment_dirs |-> <<>>, home_mounted |-> FALSE,
              commands |-> <<>>, next |-> 1]

\* the list built anew from the mount table of the moment
next_command_replanned(r, mnt) ==
    LET plan == commands(r.devices, r.deployment_dirs, mnt)
    IN  IF r.next > Len(plan) THEN plan[Len(plan)] ELSE plan[r.next]

\* the command of this turn of the loop: the next entry of the list built
\* before the loop
next_command(r, mnt) == r.commands[r.next]

(***************************************************************************)
(* Arkdep.install                                                          *)
(***************************************************************************)
steps == << "Setup systemd-boot", "Initialize arkdep", "Update arkdep config",
            "Configure fstab", "Write group file", "Configure boot template",
            "Deploy system", "Remount system" >>

\* gettext with fallback=True and no catalogue entry gives the text back
tr(text) == text

\* the test of the loop the wrong way round
step_failed_inverted(result) == result = True

\* `if not func()`: the step's result ends the loop
step_failed(result) == result = False

\* what install gives back: nothing yet, None, the pair, or an exception
Pending     == [kind |-> "pending", pair |-> <<>>]
ReturnsNone == [kind |-> "None", pair |-> <<>>]
Raises      == [kind |-> "exception", pair |-> <<>>]

\* a pair that does not say which step failed
error_pair_anonymous(description) ==
    [kind |-> "pair",
     pair |-> <<tr("Installation Error"), tr("Failed")>>]

error_pair(description) ==
    [kind |-> "pair",
     pair |-> <<tr("Installation Error"), tr("Failed: " \o description)>>]

\* A step gave `result` back to the loop of install (or raised, Fault).
StepReturns(result) ==
    /\ returned' = Append(returned, result)
    /\ IF result = Fault
       THEN /\ status' = "raised"
            /\ retval' = Raises
            /\ step'   = step
       ELSE IF step_failed(result)
       THEN /\ status' = "returned"
            /\ retval' = error_pair(steps[step])
            /\ step'   = step
       ELSE IF step = Len(steps)
       THEN /\ status' = "returned"
            /\ retval' = ReturnsNone
            /\ step'   = step + 1
       ELSE /\ step' = step + 1
            /\ UNCHANGED <<status, retval>>

\* A step that runs in one piece starts, acts and returns
StepRuns(k, out) ==
    /\ status = "running"
    /\ step = k
    /\ started' = Append(started, steps[k])
    /\ files'   = out.files
    /\ log'     = log \o out.log
    /\ StepReturns(out.result)
    /\ UNCHANGED <<partitions, rm, issued, mounts>>
    /\ UNCHANGED pmVars
    /\ UNCHANGED cmdVars

SetupSystemdBoot ==
    \E makedirs \in BOOLEAN, copied \in 0..2, w \in WriteOutcomes :
        StepRuns(1, setup_systemd_boot(files, makedirs, copied, w))

\* arkdep init may or may not leave a config file behind
DefaultConfig ==
    Format("arkdep_config", [repo_url |-> "<default>", repo_default_image |-> "<default>"])

InitializeArkdep ==
    \E outcome \in CmdOutcomes, created \in BOOLEAN :
        StepRuns(2, Outcome(IF outcome = "ok" /\ created
                            THEN [files EXCEPT ![config_path] = DefaultConfig]
                            ELSE files,
                            run_cmd_log(<<"arkdep", "init">>, outcome),
                            run_cmd(outcome)))

UpdateArkdepConfig ==
    \E config \in JobConfigs, io \in ConfigIO :
        StepRuns(3, update_arkdep_config(files, config, io))

ConfigureFstab ==
    \E rootProbe \in Probes, homeProbe \in Probes, w \in WriteOutcomes :
        StepRuns(4, configure_fstab(files, partitions, rootProbe, homeProbe, w))

WriteGroupFile ==
    \E w \in WriteOutcomes : StepRuns(5, write_group_file(files, w))

ConfigureBootTemplate ==
    \E probe \in Probes, w \in WriteOutcomes :
        StepRuns(6, configure_boot_template(files, partitions, probe, w))

DeploySystem ==
    \E popen \in PopenKinds, returncode \in ExitCodes, last \in Lines \cup {""} :
        StepRuns(7, Outcome(files,
                            run_cmd_with_logging_log(popen, returncode, last),
                            run_cmd_with_logging_result(popen, returncode)))

\* remount_system up to the point where `commands` is built
RemountBegin ==
    /\ status = "running"
    /\ step = 8
    /\ rm.pc = "idle"
    /\ started' = Append(started, steps[8])
    /\ LET devs == devices(partitions)
       IN  IF devices_missing(devs)
           THEN /\ log' = Append(log, Error("Required devices not found"))
                /\ rm'  = [rm EXCEPT !.pc = "done", !.devices = devs]
                /\ StepReturns(False)
           ELSE \E exists \in BOOLEAN, listing \in DeploymentListings :
                IF ~exists
                THEN /\ log' = log
                     /\ rm'  = [rm EXCEPT !.pc = "done", !.devices = devs]
                     /\ StepReturns(Fault)
                ELSE IF no_deployment(listing)
                THEN /\ log' = Append(log, Error("No deployment found"))
                     /\ rm'  = [rm EXCEPT !.pc = "done", !.devices = devs,
                                          !.listed = TRUE]
                     /\ StepReturns(False)
                ELSE /\ log' = log
                     /\ rm'  = [pc |-> "commands", devices |-> devs,
                                listed |-> TRUE,
                                deployment_dirs |-> listing,
                                home_mounted |-> ismount(mounts, home_dir),
                                commands |-> commands(devs, listing, mounts),
                                next |-> 1]
                     /\ UNCHANGED <<step, status, retval, returned>>
    /\ UNCHANGED <<partitions, files, issued, mounts>>
    /\ UNCHANGED pmVars
    /\ UNCHANGED cmdVars

\* one turn of `for cmd in filter(None, commands)`
RemountCommand ==
    /\ status = "running"
    /\ step = 8
    /\ rm.pc = "commands"
    /\ \E outcome \in CmdOutcomes :
        LET cmd == next_command(rm, mounts)
        IN  /\ issued' = Append(issued, [cmd |-> cmd, outcome |-> outcome])
            /\ mounts' = after_command(mounts, cmd, outcome)
            /\ log'    = log \o run_cmd_log(cmd, outcome)
            /\ IF run_cmd(outcome) = True
               THEN IF rm.next = Len(rm.commands)
                    THEN /\ rm' = [rm EXCEPT !.pc = "done"]
                         /\ StepReturns(True)
                    ELSE /\ rm' = [rm EXCEPT !.next = @ + 1]
                         /\ UNCHANGED <<step, status, retval, returned>>
               ELSE /\ rm' = [rm EXCEPT !.pc = "done"]
                    /\ StepReturns(run_cmd(outcome))
    /\ UNCHANGED <<partitions, started, files>>
    /\ UNCHANGED pmVars
    /\ UNCHANGED cmdVars

(***************************************************************************)
(* FileManager.run_cmd_with_logging with its threads (SpecCmd)             *)
(*                                                                         *)
(* The calling thread starts the child (Popen), starts log_progress and    *)
(* read_output, and blocks in process.wait().  The child writes lines to   *)
(* its stdout pipe and exits.  Each thread moves on its own; no lock       *)
(* orders them.                                                            *)
(***************************************************************************)
log_interval == 1

\* the child: not started, running or exited; written: the lines it wrote;
\* startedAt, exitedAt: the time of Popen and of its exit; counterAtExit: the
\* counter of log_progress at the moment the child exited
NoProcess == [state |-> "none", returncode |-> 0, written |-> <<>>,
              startedAt |-> 0, exitedAt |-> 0, counterAtExit |-> 0]

\* the test that never sees the child running
poll_is_None_never(p) == p.state = "no such state"

\* process.poll() is None: the child has not exited
poll_is_None(p) == p.state # "exited"

\* the lines the child writes, as read from the pipe, and line.decode().strip()
RawLines == {"line-a\n", "  line-b \n", "\n"}

strip(raw) ==
    CASE raw = "line-a\n"    -> "line-a"
      [] raw = "  line-b \n" -> "line-b"
      [] OTHER               -> ""

\* the text of a progress message
progress_text(count, last) ==
    IF strip(last) # ""
    THEN "[" \o ToString(count) \o "s] " \o strip(last)
    ELSE "[" \o ToString(count) \o "s] Running: arkdep deploy"

CmdUnchanged ==
    /\ UNCHANGED partitions
    /\ UNCHANGED pmVars
    /\ UNCHANGED plVars
    /\ UNCHANGED now

\* subprocess.Popen(cmd, ...): the child starts, or Popen raises and the
\* except branch returns False
MainPopen ==
    /\ mainPc = "popen"
    /\ \E popen \in PopenKinds :
        IF popen = "ok"
        THEN /\ proc' = [proc EXCEPT !.state = "running", !.startedAt = now]
             /\ mainPc' = "start_log"
             /\ UNCHANGED <<log, cmdResult>>
        ELSE /\ mainPc' = "done"
             /\ log' = log \o run_cmd_with_logging_log(popen, 0, last_output_line)
             /\ cmdResult' = run_cmd_with_logging_result(popen, 0)
             /\ UNCHANGED proc
    /\ UNCHANGED <<logPc, outPc, counter, pipe, last_output_line>>
    /\ UNCHANGED wake
    /\ CmdUnchanged

\* log_thread.start()
MainStartLogThread ==
    /\ mainPc = "start_log"
    /\ mainPc' = "start_output"
    /\ logPc' = "poll"
    /\ UNCHANGED <<proc, outPc, counter, pipe, last_output_line, cmdResult, log>>
    /\ UNCHANGED wake
    /\ CmdUnchanged

\* output_thread.start()
MainStartOutputThread ==
    /\ mainPc = "start_output"
    /\ mainPc' = "wait"
    /\ outPc' = "readline"
    /\ UNCHANGED <<proc, logPc, counter, pipe, last_output_line, cmdResult, log>>
    /\ UNCHANGED wake
    /\ CmdUnchanged

\* the result taken from whether any output line was recorded
MainWaitReturns_by_last_line ==
    /\ mainPc = "wait"
    /\ proc.state = "exited"
    /\ mainPc' = "done"
    /\ log' = log \o run_cmd_with_logging_log("ok", proc.returncode, last_output_line)
    /\ cmdResult' = IF last_output_line = "" THEN True ELSE False
    /\ UNCHANGED <<proc, logPc, outPc, counter, pipe, last_output_line>>
    /\ UNCHANGED wake
    /\ CmdUnchanged

\* process.wait() returns once the child has exited; the exit status decides
\* the result
MainWaitReturns ==
    /\ mainPc = "wait"
    /\ proc.state = "exited"
    /\ mainPc' = "done"
    /\ log' = log \o run_cmd_with_logging_log("ok", proc.returncode, last_output_line)
    /\ cmdResult' = run_cmd_with_logging_result("ok", proc.returncode)
    /\ UNCHANGED <<proc, logPc, outPc, counter, pipe, last_output_line>>
    /\ UNCHANGED wake
    /\ CmdUnchanged

\* log_progress: `while process.poll() is None`
LogPoll ==
    /\ logPc = "poll"
    /\ proc.state = "exited" \/ counter < MaxTicks * log_interval
    /\ logPc' = IF poll_is_None(proc) THEN "emit" ELSE "done"
    /\ UNCHANGED <<proc, mainPc, outPc, counter, pipe, last_output_line, cmdResult, log>>
    /\ UNCHANGED wake
    /\ CmdUnchanged

\* log_progress: counter += log_interval and the debug message
LogEmit ==
    /\ logPc = "emit"
    /\ counter' = counter + log_interval
    /\ log' = Append(log, Debug(progress_text(counter', last_output_line)))
    /\ logPc' = "sleep"
    /\ wake' = now + log_interval
    /\ UNCHANGED <<proc, mainPc, outPc, pipe, last_output_line, cmdResult>>
    /\ CmdUnchanged

\* log_progress: time.sleep(log_interval) is over
LogSleep ==
    /\ logPc = "sleep"
    /\ now >= wake
    /\ logPc' = "poll"
    /\ UNCHANGED <<proc, mainPc, outPc, counter, pipe, last_output_line, cmdResult, log>>
    /\ UNCHANGED wake
    /\ CmdUnchanged

\* read_output: one readline.  A line is there: keep it when it is not
\* blank.  The pipe is empty and the child has exited: b'', the loop ends.
OutReadline ==
    /\ outPc = "readline"
    /\ IF Len(pipe) > 0
       THEN /\ pipe' = Tail(pipe)
            /\ last_output_line' = IF strip(Head(pipe)) # "" THEN strip(Head(pipe))
                                   ELSE last_output_line
            /\ UNCHANGED outPc
       ELSE /\ proc.state = "exited"
            /\ outPc' = "done"
            /\ UNCHANGED <<pipe, last_output_line>>
    /\ UNCHANGED <<proc, mainPc, logPc, counter, cmdResult, log>>
    /\ UNCHANGED wake
    /\ CmdUnchanged

\* the child writes a line to its stdout
ChildWrites ==
    /\ proc.state = "running"
    /\ Len(proc.written) < MaxLines
    /\ \E raw \in RawLines :
        /\ pipe' = Append(pipe, raw)
        /\ proc' = [proc EXCEPT !.written = Append(@, raw)]
    /\ UNCHANGED <<mainPc, logPc, outPc, counter, last_output_line, cmdResult, log>>
    /\ UNCHANGED wake
    /\ CmdUnchanged

\* the child exits
ChildExits ==
    /\ proc.state = "running"
    /\ \E returncode \in ExitCodes :
        proc' = [proc EXCEPT !.state = "exited", !.returncode = returncode,
                             !.exitedAt = now, !.counterAtExit = counter]
    /\ UNCHANGED <<mainPc, logPc, outPc, counter, pipe, last_output_line, cmdResult, log>>
    /\ UNCHANGED wake
    /\ CmdUnchanged

\* A thread that can take a step: the calling thread before it blocks in
\* process.wait() or once the child has exited, log_progress outside its
\* sleep, read_output with a line or the end of the pipe to read.
Runnable ==
    \/ mainPc \in {"popen", "start_log", "start_output"}
    \/ mainPc = "wait" /\ proc.state = "exited"
    \/ logPc = "poll" /\ (proc.state = "exited" \/ counter < MaxTicks * log_interval)
    \/ logPc = "emit"
    \/ logPc = "sleep" /\ now >= wake
    \/ outPc = "readline" /\ (Len(pipe) > 0 \/ proc.state = "exited")

\* One second passes.  The statements of the threads take far less than a
\* second (the interpreter switches threads every few milliseconds), so a
\* thread that can take a step has taken it before the second is over; the
\* child writes and exits whenever it likes.
Tick ==
    /\ mainPc # "idle"
    /\ ~Runnable
    /\ now < MaxTicks * log_interval \/ (logPc = "sleep" /\ now < wake)
    /\ now' = now + 1
    /\ UNCHANGED <<proc, mainPc, logPc, outPc, counter, pipe, last_output_line,
                   cmdResult, wake, log>>
    /\ UNCHANGED partitions
    /\ UNCHANGED pmVars
    /\ UNCHANGED plVars

(***************************************************************************)
(* The specifications                                                      *)
(***************************************************************************)
IdlePipeline ==
    /\ step = 1
    /\ status = "idle"
    /\ retval = Pending
    /\ started = <<>>
    /\ returned = <<>>
    /\ files = [p \in Paths |-> NoFile]
    /\ rm = NoRemount
    /\ issued = <<>>
    /\ mounts = [d \in {rootmount, boot_dir, home_dir} |-> NotMounted]

IdleCmd ==
    /\ proc = NoProcess
    /\ mainPc = "idle"
    /\ logPc = "idle"
    /\ outPc = "idle"
    /\ counter = 0
    /\ pipe = <<>>
    /\ last_output_line = ""
    /\ cmdResult = None
    /\ now = 0
    /\ wake = 0

\* the mount table the installer hands over: the working root and /boot are
\* mounted, /home may or may not be
InitialMounts ==
    { [d \in {rootmount, boot_dir, home_dir} |->
         IF d = rootmount THEN Working("root")
         ELSE IF d = boot_dir THEN Working("boot")
         ELSE h] : h \in {Working("home"), NotMounted} }

InitPM ==
    /\ partitions \in PartitionLists
    /\ query = NoQuery
    /\ log = <<>>
    /\ IdlePipeline
    /\ IdleCmd

NextPM ==
    /\ \/ QueryPartition
       \/ QueryUuid
       \/ QueryDevice
       \/ QueryIsLuks
       \/ QueryFilesystem
    /\ UNCHANGED <<partitions, log>>
    /\ UNCHANGED plVars
    /\ UNCHANGED cmdVars

SpecPM == InitPM /\ [][NextPM]_vars

\* run(): Arkdep(rootmount).install()
Init ==
    /\ partitions \in PartitionLists
    /\ query = NoQuery
    /\ step = 1
    /\ status = "running"
    /\ retval = Pending
    /\ started = <<>>
    /\ returned = <<>>
    /\ files = [p \in Paths |-> NoFile]
    /\ log = <<>>
    /\ rm = NoRemount
    /\ issued = <<>>
    /\ mounts \in InitialMounts
    /\ IdleCmd

Next ==
    \/ SetupSystemdBoot
    \/ InitializeArkdep
    \/ UpdateArkdepConfig
    \/ ConfigureFstab
    \/ WriteGroupFile
    \/ ConfigureBootTemplate
    \/ DeploySystem
    \/ RemountBegin
    \/ RemountCommand

Spec == Init /\ [][Next]_vars

\* one call run_cmd_with_logging(["arkdep", "deploy"], arkdep_env)
InitCmd ==
    /\ partitions = <<>>
    /\ query = NoQuery
    /\ log = <<>>
    /\ IdlePipeline
    /\ proc = NoProcess
    /\ mainPc = "popen"
    /\ logPc = "idle"
    /\ outPc = "idle"
    /\ counter = 0
    /\ pipe = <<>>
    /\ last_output_line = ""
    /\ cmdResult = None
    /\ now = 0
    /\ wake = 0

NextCmd ==
    \/ MainPopen
    \/ MainStartLogThread
    \/ MainStartOutputThread
    \/ MainWaitReturns
    \/ LogPoll
    \/ LogEmit
    \/ LogSleep
    \/ OutReadline
    \/ ChildWrites
    \/ ChildExits
    \/ Tick

SpecCmd == InitCmd /\ [][NextCmd]_vars

\* The same call when every thread that can run does run in the end, the
\* child exits in the end, and time goes on
SpecCmdFair ==
    /\ SpecCmd
    /\ WF_vars(MainPopen) /\ WF_vars(MainStartLogThread)
    /\ WF_vars(MainStartOutputThread) /\ WF_vars(MainWaitReturns)
    /\ WF_vars(LogPoll) /\ WF_vars(LogEmit) /\ WF_vars(LogSleep)
    /\ WF_vars(OutReadline) /\ WF_vars(ChildExits) /\ WF_vars(Tick)

(***************************************************************************)
(* Properties of the install pipeline (Spec)                               *)
(***************************************************************************)
AllTrue(results) == \A k \in 1..Len(results) : results[k] = True

\* C1: install starts its eight steps in the fixed order; step k is started
\* only after steps 1..k-1 each returned True; once a step has returned
\* False no later step is started and install returns the error pair; and
\* install returns None exactly when all eight steps returned True.
C1_StepsInOrder ==
    /\ Len(started) <= Len(steps)
    /\ \A k \in 1..Len(started) : started[k] = steps[k]
    /\ Len(returned) <= Len(started)
    /\ Len(started) <= Len(returned) + 1
    /\ \A k \in 1..Len(started) : \A j \in 1..(k - 1) : returned[j] = True
    /\ \A k \in 1..Len(returned) :
          returned[k] = False =>
              /\ Len(started) = k
              /\ status = "returned"
              /\ retval.kind = "pair"
    /\ (status = "returned" /\ retval.kind = "None")
          <=> (Len(returned) = Len(steps) /\ AllTrue(returned))

\* step 5 returned False after four steps that returned True
C1_Witness ==
    /\ Len(started) = 5
    /\ returned = <<True, True, True, True, False>>
    /\ retval.kind = "pair"

\* C2: whatever the external operations of a step do, install ends by
\* returning None or the pair: no exception leaves it.
C2_NoFaultEscapes == status # "raised"

\* the operation of the plan (1..6 of the remount sequence) a command is
OpIndex(cmd) ==
    IF cmd[1] = "umount"
    THEN CASE cmd[2] = boot_dir -> 1
           [] cmd[2] = home_dir -> 2
           [] cmd[2] = rootmount -> 3
           [] OTHER -> 0
    ELSE LET target == cmd[Len(cmd)]
         IN  CASE target = rootmount -> 4
               [] target = home_dir -> 5
               [] target = boot_dir -> 6
               [] OTHER -> 0

\* the commands issued so far follow the order umount /boot, umount /home,
\* umount root, mount root, mount /home, mount /boot, none left out but the
\* umount of /home
IssuedInOrder ==
    /\ Len(issued) > 0 => OpIndex(issued[1].cmd) = 1
    /\ \A i \in 1..(Len(issued) - 1) :
          \/ OpIndex(issued[i + 1].cmd) = OpIndex(issued[i].cmd) + 1
          \/ OpIndex(issued[i].cmd) = 1 /\ OpIndex(issued[i + 1].cmd) = 3

\* C3: the mount operations of remount_system are issued in the order of the
\* plan, and when the operation at position k fails none of the later ones
\* is issued and remount_system returns failure (False).
C3_OrderAndAbort ==
    /\ IssuedInOrder
    /\ \A i \in 1..Len(issued) :
          issued[i].outcome # "ok" =>
              /\ i = Len(issued)
              /\ Len(returned) = Len(steps)
              /\ returned[Len(steps)] = False

\* the part of C3 that does hold: the order, and no operation after one that
\* did not end with exit status 0
C3_OrderAndNoLaterOperation ==
    /\ IssuedInOrder
    /\ \A i \in 1..Len(issued) :
          issued[i].outcome # "ok" => i = Len(issued) /\ rm.pc = "done"
    /\ \A i \in 1..Len(issued) :
          issued[i].outcome = "CalledProcessError" =>
              Len(returned) = Len(steps) /\ returned[Len(steps)] = False

\* C4: when the root or the boot device cannot be resolved, or the
\* deployments directory holds no deployment directory, remount_system
\* reports a precondition failure (logs the error, returns False) and has
\* issued no mount or umount command.
PreconditionFails ==
    \/ ~Truthy(get_device(partitions, "/"))
    \/ ~Truthy(get_device(partitions, "/boot"))
    \/ rm.listed /\ rm.deployment_dirs = <<>>

C4_PreconditionBeforeMounts ==
    (Len(started) = Len(steps) /\ PreconditionFails) =>
        /\ issued = <<>>
        /\ mounts \in InitialMounts
        /\ rm.pc = "done"
        /\ returned[Len(steps)] = False
        /\ log[Len(log)] \in {Error("Required devices not found"),
                              Error("No deployment found")}

\* root and boot resolve, the deployments directory is empty
C4_Witness ==
    /\ Len(started) = Len(steps)
    /\ Truthy(get_device(partitions, "/"))
    /\ Truthy(get_device(partitions, "/boot"))
    /\ rm.listed
    /\ rm.deployment_dirs = <<>>
    /\ returned[Len(steps)] = False

\* C5: with more than one deployment directory remount_system records a
\* warning, does not fail for that reason, and mounts the root with the
\* subvolume of the first directory of the listing.
C5_WarnsAndUsesFirst ==
    (rm.pc # "idle" /\ Len(rm.deployment_dirs) > 1) =>
        /\ \E i \in 1..Len(log) : log[i].level = "warning"
        /\ rm.commands[Len(rm.commands) - 2]
             = <<"mount", "-o",
                 "subvol=/arkdep/deployments/" \o rm.deployment_dirs[1] \o "/rootfs",
                 rm.devices.root, rootmount>>

\* the part of C5 that does hold: several directories are no failure, and
\* the first one of the listing is the one mounted
C5_UsesFirstOfListing ==
    (rm.pc # "idle" /\ Len(rm.deployment_dirs) > 1) =>
        /\ Len(rm.commands) >= 5
        /\ rm.commands[Len(rm.commands) - 2]
             = <<"mount", "-o",
                 "subvol=/arkdep/deployments/" \o rm.deployment_dirs[1] \o "/rootfs",
                 rm.devices.root, rootmount>>

\* the record of the partition list that stands for a mountpoint
RecordOf(mp) == get_partition(partitions, mp)
HasMapper(r) == Truthy(Get(r, "luksMapperName"))

\* C8: the boot entry written is the encrypted-root template exactly when
\* the root record has a mapper name; its root_uuid is then the root's
\* container UUID (luksUuid), and the plain partition UUID otherwise; the
\* entry is a function of the partition list alone.
C8_BootEntry ==
    LET entry == files[template_path]
        root  == RecordOf("/")
        home  == RecordOf("/home")
    IN  entry \notin {NoFile, EmptyFile} =>
            /\ (entry.template = "luks_systemd_boot") <=> HasMapper(root)
            /\ (entry.template = "systemd_boot") <=> ~HasMapper(root)
            /\ entry.args.root_uuid
                 = IF HasMapper(root) THEN GetD(root, "luksUuid", "")
                   ELSE GetD(root, "uuid", "")
            /\ entry.args.home_option
                 = IF HasMapper(home) /\ Truthy(Get(home, "luksUuid"))
                   THEN "rd.luks.name=" \o home["luksUuid"] \o "=manjaro_home"
                   ELSE ""

\* an encrypted root: the entry names the container UUID
C8_Witness ==
    /\ Len(partitions) > 0
    /\ partitions[1] = Part("/", "/dev/sda3", "btrfs", "CCCC", "luks-root", "LLLL")
    /\ files[template_path].template = "luks_systemd_boot"
    /\ files[template_path].args.root_uuid = "LLLL"

\* C9: the /home line of the mount table written carries the home
\* partition's own UUID, filesystem type and device options exactly when the
\* partition list has a /home record, and is the shared-subvolume line with
\* the root filesystem UUID otherwise; for [/ AAAA, /boot BBBB] it carries
\* AAAA with the shared-home subvolume option.
C9_HomeLine ==
    LET fstab == files[fstab_path]
        home  == RecordOf("/home")
        line  == fstab.args.home_fstab.args
    IN  fstab \notin {NoFile, EmptyFile} =>
            /\ TruthyDict(home) =>
                 /\ line.fs_type = GetD(home, "fs", "btrfs")
                 /\ line.mount_options
                      = IF line.fs_type = "btrfs" THEN BtrfsHomeOptions
                        ELSE OtherHomeOptions
                 /\ line.home_fs_uuid
                      \in {GetD(home, "uuid", "")}
                          \cup (IF HasMapper(home) THEN ProbedUuids ELSE {})
            /\ ~TruthyDict(home) =>
                 /\ line.fs_type = "btrfs"
                 /\ line.mount_options = SharedHomeOptions
                 /\ line.home_fs_uuid = fstab.args.root_fs_uuid
            /\ partitions = << Part("/", "/dev/sda2", "btrfs", "AAAA", Absent, Absent),
                               Part("/boot", "/dev/sda1", Absent, "BBBB", Absent, Absent) >>
                 => /\ line.home_fs_uuid = "AAAA"
                    /\ line.mount_options = SharedHomeOptions
                    /\ fstab.args.esp_uuid = "BBBB"

\* the mount table written for [/ AAAA, /boot BBBB]
C9_Witness ==
    /\ partitions = << Part("/", "/dev/sda2", "btrfs", "AAAA", Absent, Absent),
                       Part("/boot", "/dev/sda1", Absent, "BBBB", Absent, Absent) >>
    /\ files[fstab_path].template = "fstab"
    /\ files[fstab_path].args.home_fstab.args.home_fs_uuid = "AAAA"

(***************************************************************************)
(* Properties of PartitionManager (SpecPM)                                 *)
(***************************************************************************)
NoMatch(mp) ==
    \A i \in 1..Len(partitions) : Get(partitions[i], "mountPoint") # mp

\* r is the first record, in list order, whose mountPoint is mp
IsFirstMatch(r, mp) ==
    \E i \in 1..Len(partitions) :
        /\ Get(partitions[i], "mountPoint") = mp
        /\ \A j \in 1..(i - 1) : Get(partitions[j], "mountPoint") # mp
        /\ r = partitions[i]

\* C6: for a partition with a mapper name, get_uuid(mountpoint,
\* filesystem=True) returns "" whenever the mapper device does not exist,
\* returns the UUID probed from the mapper device once the path exists, and
\* raises in neither case.
C6_FilesystemUuidOfMapper ==
    (/\ query.op = "get_uuid"
     /\ query.filesystem
     /\ HasMapper(RecordOf(query.mountpoint)))
    => /\ query.result # Fault
       /\ ~query.probe.exists => query.result = ""
       /\ (query.probe.exists /\ query.probe.blkid \in ProbedUuids)
             => query.result = query.probe.blkid

C10_NoProgressAfterExit ==
    proc.state = "exited" => counter = proc.counterAtExit

\* C11: when the child process runs longer than one logging interval,
\* log_progress has emitted at least one progress message before the child
\* exits.
C11_ProgressBeforeExit ==
    (proc.state = "exited" /\ proc.exitedAt - proc.startedAt > log_interval)
        => proc.counterAtExit >= log_interval

\* the child ran for two seconds and a message had been emitted by then
C11_Witness ==
    /\ proc.state = "exited"
    /\ proc.exitedAt - proc.startedAt > log_interval
    /\ proc.counterAtExit >= log_interval
    /\ \E i \in 1..Len(log) : log[i].level = "debug"

\* C12: after the child has exited both auxiliary threads terminate in the
\* end, and neither log_progress nor read_output is still running when
\* run_cmd_with_logging returns.
C12_ThreadsDoneAtReturn ==
    mainPc = "done" => /\ logPc \in {"idle", "done"}
                       /\ outPc \in {"idle", "done"}

\* the part of C12 that does hold: once the child has exited and the threads
\* have been started, both threads end, the caller joining neither
C12_ThreadsEventuallyTerminate ==
    (proc.state = "exited" /\ mainPc \in {"wait", "done"})
        ~> (logPc = "done" /\ outPc = "done")

(***************************************************************************)
(* Further properties of the install pipeline (Spec)                       *)
(***************************************************************************)
\* the mount table remount_system found: the installer's mounts, /home
\* mounted or not as os.path.ismount answered
EntryMounts ==
    [d \in {rootmount, boot_dir, home_dir} |->
        IF d = rootmount THEN Working("root")
        ELSE IF d = boot_dir THEN Working("boot")
        ELSE IF rm.home_mounted THEN Working("home") ELSE NotMounted]

IsOk(entry) == entry.outcome = "ok"

\* the mount table after the commands cmds[i..], run one after the other
RECURSIVE Replay(_, _, _)
Replay(mnt, cmds, i) ==
    IF i > Len(cmds) THEN mnt
    ELSE Replay(run_mount(mnt, cmds[i].cmd), cmds, i + 1)

\* the files a step writes
StepPaths(k) ==
    CASE k = 1 -> {efi_systemd, efi_boot, loader_conf}
      [] k = 2 -> {config_path}
      [] k = 3 -> {config_path}
      [] k = 4 -> {fstab_path}
      [] k = 5 -> {group_path}
      [] k = 6 -> {template_path}
      [] OTHER -> {}

NoRetry ==
    /\ \A i, j \in 1..Len(started) : started[i] = started[j] => i = j
    /\ \A i, j \in 1..Len(issued) : issued[i].cmd = issued[j].cmd => i = j

NoCompensation ==
    rm.commands # <<>> =>
        /\ mounts = Replay(EntryMounts, SelectSeq(issued, IsOk), 1)
        /\ \A k \in 1..Len(issued) :
              ~IsOk(issued[k]) =>
                  /\ k = Len(issued)
                  /\ mounts = Replay(EntryMounts, SubSeq(issued, 1, k - 1), 1)
                  /\ k > 1 => mounts[boot_dir] = NotMounted
                  /\ (k > 2 /\ k < Len(rm.commands)) => mounts[home_dir] = NotMounted

\* C13: no step is invoked twice and no mount or umount command is issued
\* twice; when the remount sequence fails at operation k the mount table is
\* the one operations 1..k-1 produced, nothing unmounted being mounted
\* again; and a step changes no file but its own, so that the files of the
\* earlier steps stay as they were when a later step fails.
C13_NoRetryNoCompensation ==
    /\ [](NoRetry /\ NoCompensation)
    /\ [][\A p \in Paths \ StepPaths(step) : files'[p] = files[p]]_vars

\* the mount of the new root failed: everything is unmounted and stays so,
\* and the group file written by step 5 is still there
C13_Witness ==
    /\ Len(issued) >= 3
    /\ issued[Len(issued)].outcome = "CalledProcessError"
    /\ OpIndex(issued[Len(issued)].cmd) = 4
    /\ mounts = [d \in {rootmount, boot_dir, home_dir} |-> NotMounted]
    /\ files[group_path] = Format("group_file", <<>>)
    /\ retval.kind = "pair"

\* C14: the pair install returns names the first step that failed and no
\* other step; and when a mount operation of remount_system failed, the
\* error logged names that operation.
C14_PairNamesFailedStep ==
    /\ \A k \in 1..Len(returned) : returned[k] = False => retval.kind = "pair"
    /\ retval.kind = "pair" =>
          LET k == Len(returned)
          IN  /\ status = "returned"
              /\ k >= 1
              /\ returned[k] = False
              /\ \A j \in 1..(k - 1) : returned[j] = True
              /\ retval.pair = <<"Installation Error", "Failed: " \o steps[k]>>
              /\ \A j \in 1..Len(steps) :
                    j # k => retval.pair[2] # "Failed: " \o steps[j]
    /\ \A i \in 1..Len(issued) :
          issued[i].outcome = "CalledProcessError" =>
              /\ retval.kind = "pair"
              /\ retval.pair[2] = "Failed: Remount system"
              /\ log[Len(log)].level = "error"
              /\ log[Len(log)].text
                   = "Command failed: " \o CalledProcessErrorText(issued[i].cmd)

\* the umount of the working root exited with a non-zero status
C14_Witness ==
    /\ retval.kind = "pair"
    /\ retval.pair = <<"Installation Error", "Failed: Remount system">>
    /\ Len(issued) >= 2
    /\ issued[Len(issued)].outcome = "CalledProcessError"
    /\ log[Len(log)].text
         = "Command failed: Command '['umount', '/tmp/calamares-root']' returned non-zero exit status 1."

\* remount_system passed its preconditions and built its list of commands
PlanBuilt == rm.commands # <<>>

IsUmountHome(entry) == entry.cmd = <<"umount", home_dir>>

\* C15: in a run of remount_system that passes its preconditions the umount
\* of /boot is issued, first of all; the umount of /home is issued, right
\* after it, exactly when /home was a mountpoint, and is otherwise skipped
\* without counting as a failure.
C15_UmountBootAlwaysHomeIfMounted ==
    PlanBuilt =>
        /\ rm.commands[1] = <<"umount", boot_dir>>
        /\ Len(issued) >= 1 => issued[1].cmd = <<"umount", boot_dir>>
        /\ rm.pc = "done" => Len(issued) >= 1
        /\ Len(issued) >= 2 => (IsUmountHome(issued[2]) <=> rm.home_mounted)
        /\ ~rm.home_mounted => SelectSeq(issued, IsUmountHome) = <<>>
        /\ (/\ ~rm.home_mounted
            /\ rm.pc = "done"
            /\ \A i \in 1..Len(issued) : IsOk(issued[i]))
              => /\ Len(issued) = 5
                 /\ returned[Len(steps)] = True
                 /\ retval = ReturnsNone

\* /home was not mounted: five commands, none of them the umount of /home,
\* and remount_system returned True
C15_Witness ==
    /\ PlanBuilt
    /\ ~rm.home_mounted
    /\ Len(issued) = 5
    /\ issued[1].cmd = <<"umount", boot_dir>>
    /\ issued[2].cmd = <<"umount", rootmount>>
    /\ returned[Len(steps)] = True

\* the device a record is mounted from: its mapper device when it has a
\* mapper name, its own device otherwise
DeviceOf(r) ==
    IF HasMapper(r) THEN "/dev/mapper/" \o r["luksMapperName"] ELSE r["device"]

IssuedAt(op) ==
    IF \E i \in 1..Len(issued) : OpIndex(issued[i].cmd) = op
    THEN CHOOSE i \in 1..Len(issued) : OpIndex(issued[i].cmd) = op
    ELSE 0

\* C19: when remount_system has returned True the root mountpoint is mounted
\* from the root device on the rootfs subvolume of the deployment found, and
\* no longer on the installer's working mount; /home is mounted and /boot is
\* mounted from the boot device; the root mountpoint was unmounted before it
\* was mounted again, and /home and /boot were mounted after the new root.
C19_RemountedOnSuccess ==
    (Len(returned) = Len(steps) /\ returned[Len(steps)] = True) =>
        /\ mounts[rootmount]
             = [device  |-> get_device(partitions, "/"),
                options |-> "subvol=/arkdep/deployments/" \o rm.deployment_dirs[1]
                                \o "/rootfs"]
        /\ mounts[rootmount] # Working("root")
        /\ mounts[home_dir] \notin {NotMounted, Working("home")}
        /\ mounts[home_dir].device
             \in {get_device(partitions, "/home"), get_device(partitions, "/")}
        /\ mounts[boot_dir] = [device |-> get_device(partitions, "/boot"),
                               options |-> ""]
        /\ \A i \in 1..Len(issued) : IsOk(issued[i])
        /\ 0 < IssuedAt(1)
        /\ IssuedAt(1) < IssuedAt(3)
        /\ IssuedAt(3) < IssuedAt(4)
        /\ IssuedAt(4) < IssuedAt(5)
        /\ IssuedAt(5) < IssuedAt(6)

\* two deployment directories, b listed first, an encrypted root: the root
\* mountpoint ends on the mapper device and the rootfs subvolume of b
C19_Witness ==
    /\ Len(returned) = Len(steps)
    /\ returned[Len(steps)] = True
    /\ rm.deployment_dirs = <<"b", "a">>
    /\ mounts[rootmount] = [device  |-> "/dev/mapper/luks-root",
                            options |-> "subvol=/arkdep/deployments/b/rootfs"]
    /\ mounts[boot_dir].device = "/dev/sda1"

\* the locals the plan is made of
PlanOf(r) == <<r.devices, r.deployment_dirs, r.home_mounted, r.commands>>

\* C20: remount_system fixes its plan before it issues the first command:
\* the devices, the deployment directory and whether /home is mounted are
\* evaluated on entry, with the working root still mounted and nothing
\* issued, and are not evaluated again; the commands issued are a prefix of
\* the list built from the state on entry.
C20_PlanFixedAtEntry ==
    /\ [](/\ issued # <<>> => PlanBuilt
          /\ PlanBuilt =>
               /\ rm.devices = devices(partitions)
               /\ rm.commands
                    = commands(devices(partitions), rm.deployment_dirs, EntryMounts)
               /\ Len(issued) <= Len(rm.commands)
               /\ \A i \in 1..Len(issued) : issued[i].cmd = rm.commands[i])
    /\ [][/\ PlanBuilt => PlanOf(rm') = PlanOf(rm)
          /\ (~PlanBuilt /\ PlanBuilt') =>
               /\ mounts[rootmount] = Working("root")
               /\ mounts' = mounts
               /\ issued' = <<>>
               /\ rm'.home_mounted = ismount(mounts, home_dir)]_vars

\* /home was mounted on entry and has been unmounted: the list built from
\* the mount table of the moment would differ, and the loop went on with the
\* list built on entry
C20_Witness ==
    /\ PlanBuilt
    /\ rm.home_mounted
    /\ Len(issued) >= 3
    /\ issued[3].cmd = <<"umount", rootmount>>
    /\ commands(rm.devices, rm.deployment_dirs, mounts) # rm.commands

(***************************************************************************)
(* Further properties of run_cmd_with_logging (SpecCmd)                    *)
(***************************************************************************)
\* the non-blank lines the child has written, stripped
Produced == { strip(proc.written[i]) : i \in 1..Len(proc.written) } \ {""}

Launched == proc.state # "none"

\* C17: run_cmd_with_logging returns only after the child has exited, unless
\* launching it failed; it returns False exactly when the exit status is
\* non-zero or the launch failed; and on a non-zero exit status the error
\* logged carries that status and the last output line recorded, which is
\* empty or a non-blank line the child wrote.
C17_ReturnsAfterExit ==
    /\ mainPc # "done" => cmdResult = None
    /\ mainPc = "done" =>
          /\ Launched => proc.state = "exited"
          /\ cmdResult \in {True, False}
          /\ (cmdResult = False) <=> (~Launched \/ proc.returncode # 0)
          /\ (Launched /\ proc.returncode # 0) =>
                \E i \in 1..Len(log), line \in Produced \cup {""} :
                    log[i] = Error("Command failed with code "
                                   \o ToString(proc.returncode)
                                   \o ". Last output: " \o line)

\* the child wrote line-b and exited with status 1: the error carries both
C17_Witness ==
    /\ mainPc = "done"
    /\ proc.returncode = 1
    /\ cmdResult = False
    /\ \E i \in 1..Len(log) :
          log[i] = Error("Command failed with code 1. Last output: line-b")

\* the result for an exit status
ResultOf == [c \in ExitCodes |-> IF c = 0 THEN True ELSE False]

\* C18: the result of run_cmd_with_logging is a function of the child's
\* exit status alone: whatever the interleaving of the threads and whatever
\* last_output_line holds, two runs with the same exit status give the same
\* result.
C18_ResultByExitStatusAlone ==
    (mainPc = "done" /\ Launched) => cmdResult = ResultOf[proc.returncode]

\* exit status 0 with a line recorded and both threads still running when
\* the call returned True
C18_Witness ==
    /\ mainPc = "done"
    /\ proc.returncode = 0
    /\ last_output_line # ""
    /\ logPc = "sleep"
    /\ outPc = "readline"
    /\ cmdResult = True

====
